---- MODULE Spec2Model ----
(***************************************************************************)
(* Observability API (MonitoringLogging/src/api/main.py): the in-memory    *)
(* store of logs, metrics and alert rules, its JSON-file snapshots, the    *)
(* background persistence threads, and the filter/sort/paginate queries.   *)
(*                                                                         *)
(* Scheduling, as in the source: every route handler is an `async def`     *)
(* with no await in its body, so the event loop runs one handler body at   *)
(* a time (variable req); each _persist_async call starts one daemon       *)
(* thread (variable threads) that runs concurrently with the event loop    *)
(* and with the other threads; all of them contend for _store_lock.        *)
(*                                                                         *)
(* Abstractions of data: a datetime is a local clock value (one digit),    *)
(* with or without a UTC offset (one digit, non-negative); an ISO string   *)
(* is the sequence of its character codes, one per significant character   *)
(* ("1+1" stands for 2024-01-01T01:00:00+01:00).  A file is the sequence   *)
(* of JSON chunks written to it so far.                                    *)
(***************************************************************************)
EXTENDS Integers, Sequences, FiniteSets, Bags, TLC

VARIABLES
    OBS_ENABLE_PERSISTENCE, \* configuration flag (main.py:39)
    LOGS,                   \* _LOGS: list of log entries
    METRICS,                \* _METRICS: list of metric entries
    ALERTS,                 \* _ALERTS: dict name -> record, in insertion order
    store_lock,             \* _store_lock: [held, by]; by = 0 is the event loop
    files,                  \* the data directory: path -> [exists, text]
    threads,                \* the _persist threads started so far
    req,                    \* the handler the event loop is running
    nreq,                   \* mutating requests accepted so far
    restarts                \* process restarts so far

vars == <<OBS_ENABLE_PERSISTENCE, LOGS, METRICS, ALERTS, store_lock, files,
          threads, req, nreq, restarts>>

-----------------------------------------------------------------------------
(* Bounds of the model *)

\* events of one run: mutating requests the event loop accepts, and restarts
\* of the process (a crash, then the import of the module again); requests
\* that only read are not counted
MaxEvents == 2

-----------------------------------------------------------------------------
(* Optional values, datetimes and ISO strings *)

None == [some |-> FALSE]
Some(x) == [some |-> TRUE, v |-> x]

\* datetime: local clock value, tzinfo present or not, UTC offset
DateTime(local, aware, off) == [local |-> local, aware |-> aware, off |-> off]

\* the instant a datetime denotes (a naive one read as UTC)
Instant(dt) == dt.local - dt.off

\* datetime.isoformat(): local time, then "+HH:MM" when tzinfo is set
isoformat(dt) ==
    <<48 + dt.local>> \o (IF dt.aware THEN <<43, 48 + dt.off>> ELSE <<>>)

IsDigit(c) == c >= 48 /\ c <= 57

\* datetime.fromisoformat(s): ValueError on anything that is not an ISO string
fromisoformat(s) ==
    IF Len(s) = 1 /\ IsDigit(s[1])
    THEN [ok |-> TRUE, dt |-> DateTime(s[1] - 48, FALSE, 0)]
    ELSE IF Len(s) = 3 /\ IsDigit(s[1]) /\ s[2] = 43 /\ IsDigit(s[3])
         THEN [ok |-> TRUE, dt |-> DateTime(s[1] - 48, TRUE, s[3] - 48)]
         ELSE [ok |-> FALSE, dt |-> DateTime(0, FALSE, 0)]

\* str < str in Python: by code point, a proper prefix is smaller
RECURSIVE StrLess(_, _)
StrLess(a, b) ==
    IF b = <<>> THEN FALSE
    ELSE IF a = <<>> THEN TRUE
    ELSE IF a[1] # b[1] THEN a[1] < b[1]
    ELSE StrLess(Tail(a), Tail(b))

\* datetime < datetime: TypeError between a naive and an aware datetime
DtComparable(a, b) == a.aware = b.aware
DtLess(a, b) == IF a.aware THEN Instant(a) < Instant(b) ELSE a.local < b.local

-----------------------------------------------------------------------------
(* Utility functions *)

Min(a, b) == IF a < b THEN a ELSE b
Max(a, b) == IF a > b THEN a ELSE b

\* items[start:end] of a Python list (0-based, negative indices from the end)
PySlice(items, start, end) ==
    LET n == Len(items)
        lo == IF start < 0 THEN Max(n + start, 0) ELSE Min(start, n)
        hi == IF end < 0 THEN Max(n + end, 0) ELSE Min(end, n)
    IN  IF lo >= hi THEN <<>> ELSE SubSeq(items, lo + 1, hi)

\* _paginate with the slice one entry too long
paginate_overlap(items, page, limit) ==
    IF limit <= 0 THEN [items |-> items, total |-> Len(items)]
    ELSE LET start == (page - 1) * limit
         IN  [items |-> PySlice(items, start, start + limit + 1),
              total |-> Len(items)]

\* _paginate counting the entries of the page it returns
paginate_counts_page(items, page, limit) ==
    IF limit <= 0 THEN [items |-> items, total |-> Len(items)]
    ELSE LET start == (page - 1) * limit
             slice == PySlice(items, start, start + limit)
         IN  [items |-> slice, total |-> Len(slice)]

\* _paginate(items, page, limit) -> (items, total)
paginate(items, page, limit) ==
    LET total == Len(items)
    IN  IF limit <= 0 THEN [items |-> items, total |-> total]
        ELSE LET start == (page - 1) * limit
                 end == start + limit
             IN  [items |-> PySlice(items, start, end), total |-> total]

\* in_range(ts) of _filter_logs/_filter_metrics: "True", "False", or the
\* TypeError raised by comparing a naive with an aware datetime
in_range(ts, start, end) ==
    IF start.some /\ ~DtComparable(ts, start.v) THEN "TypeError"
    ELSE IF start.some /\ DtLess(ts, start.v) THEN "False"
    ELSE IF end.some /\ ~DtComparable(ts, end.v) THEN "TypeError"
    ELSE IF end.some /\ DtLess(end.v, ts) THEN "False"
    ELSE "True"

\* truth value of an Optional[str] in `if source and ...`
Truthy(opt) == opt.some /\ opt.v # ""

\* truth value of an Optional[str] holding a timestamp, in `if from_:`
TruthyTs(opt) == opt.some /\ opt.v # <<>>

\* entry.get("timestamp") parsed when it is a str (it always is, here)
EntryTs(entry) == fromisoformat(entry.timestamp).dt

\* the tests of the loop body of _filter_logs before in_range
LogPasses(entry, source, level) ==
    /\ ~(Truthy(source) /\ entry.source # source.v)
    /\ ~(Truthy(level) /\ entry.level # level.v)

\* the tests of the loop body of _filter_metrics before in_range
MetricPasses(entry, source, metric_name) ==
    /\ ~(Truthy(source) /\ entry.source # source.v)
    /\ ~(Truthy(metric_name) /\ ~\E kv \in entry.metrics : kv[1] = metric_name.v)

\* the for loop of a filter over `entries`; keep(e) is the tests before in_range
RECURSIVE FilterLoop(_, _, _, _)
FilterLoop(entries, keep, start, end) ==
    IF entries = <<>> THEN [err |-> FALSE, items |-> <<>>]
    ELSE LET e == Head(entries)
             r == IF keep[e] THEN in_range(EntryTs(e), start, end) ELSE "False"
         IN  IF r = "TypeError" THEN [err |-> TRUE, items |-> <<>>]
             ELSE LET rest == FilterLoop(Tail(entries), keep, start, end)
                  IN  IF rest.err THEN rest
                      ELSE IF r = "True"
                           THEN [err |-> FALSE, items |-> <<e>> \o rest.items]
                           ELSE rest

\* a descending sort that puts a later entry before the earlier ones of its key
RECURSIVE SortDescInsertBeforeTies(_, _)
SortDescInsertBeforeTies(sorted, e) ==
    IF sorted = <<>> THEN <<e>>
    ELSE IF ~StrLess(e.timestamp, Head(sorted).timestamp)
         THEN <<e>> \o sorted
         ELSE <<Head(sorted)>> \o SortDescInsertBeforeTies(Tail(sorted), e)

\* list.sort(key=lambda e: e["timestamp"], reverse=True): stable, by str order
RECURSIVE SortDescInsert(_, _)
SortDescInsert(sorted, e) ==
    IF sorted = <<>> THEN <<e>>
    ELSE IF StrLess(Head(sorted).timestamp, e.timestamp)
         THEN <<e>> \o sorted
         ELSE <<Head(sorted)>> \o SortDescInsert(Tail(sorted), e)

RECURSIVE SortDesc(_)
SortDesc(items) ==
    IF items = <<>> THEN <<>>
    ELSE SortDescInsert(SortDesc(SubSeq(items, 1, Len(items) - 1)),
                        items[Len(items)])

\* the with block of _filter_logs over the list `logs`
LogsLoop(logs, source, level, start, end) ==
    FilterLoop(logs,
               [e \in {logs[i] : i \in 1..Len(logs)} |-> LogPasses(e, source, level)],
               start, end)

\* the with block of _filter_metrics over the list `metrics`
MetricsLoop(metrics, source, metric_name, start, end) ==
    FilterLoop(metrics,
               [e \in {metrics[i] : i \in 1..Len(metrics)} |->
                    MetricPasses(e, source, metric_name)],
               start, end)

\* _filter_logs(source, level, start, end) over the list `logs`
filter_logs(logs, source, level, start, end) ==
    LET r == LogsLoop(logs, source, level, start, end)
    IN  IF r.err THEN r ELSE [err |-> FALSE, items |-> SortDesc(r.items)]

\* _filter_metrics(source, metric_name, start, end) over the list `metrics`
filter_metrics(metrics, source, metric_name, start, end) ==
    LET r == MetricsLoop(metrics, source, metric_name, start, end)
    IN  IF r.err THEN r ELSE [err |-> FALSE, items |-> SortDesc(r.items)]

-----------------------------------------------------------------------------
(* Persistence layer: JSON files in DATA_DIR *)

LOGS_FILE == "logs.json"
METRICS_FILE == "metrics.json"
ALERTS_FILE == "alerts.json"
FinalPaths == {LOGS_FILE, METRICS_FILE, ALERTS_FILE}

\* a save that opens the final path itself
TmpInPlace(path) == path
\* tmp = f"{path}.tmp" in _save_json_file
TmpOf(path) == path \o ".tmp"

Paths == FinalPaths \cup {TmpOf(p) : p \in FinalPaths}

Absent == [exists |-> FALSE, text |-> <<>>]

\* the chunks json.dump writes for a list (kind "list") or a dict (kind "dict"),
\* each element of `data` one chunk between the opening and the closing bracket
JsonOpen(kind) == [t |-> "open", kind |-> kind]
JsonClose(kind) == [t |-> "close", kind |-> kind]
JsonItem(x) == [t |-> "item", v |-> x]
json_dump(data, kind) ==
    <<JsonOpen(kind)>> \o [i \in 1..Len(data) |-> JsonItem(data[i])]
                       \o <<JsonClose(kind)>>

\* json.load succeeds on a complete document only
JsonComplete(text) ==
    /\ Len(text) >= 2
    /\ text[1].t = "open"
    /\ text[Len(text)].t = "close"
    /\ text[Len(text)].kind = text[1].kind
    /\ \A i \in 2..(Len(text) - 1) : text[i].t = "item"

json_load(text) ==
    [kind |-> text[1].kind,
     value |-> [i \in 1..(Len(text) - 2) |-> text[i + 1].v]]

\* _load_json_file(path, default): default when the file is absent or not JSON
load_json_file(fs, path, default) ==
    IF ~fs[path].exists THEN default
    ELSE IF JsonComplete(fs[path].text) THEN json_load(fs[path].text)
    ELSE default

\* dict[key] = value: an existing key keeps its place, a new key goes last
DictHas(d, key) == \E i \in 1..Len(d) : d[i].name = key
DictIndex(d, key) == CHOOSE i \in 1..Len(d) : d[i].name = key
DictSet(d, key, value) ==
    IF DictHas(d, key)
    THEN [d EXCEPT ![DictIndex(d, key)] = [name |-> key, data |-> value]]
    ELSE Append(d, [name |-> key, data |-> value])

\* dict.update(other)
RECURSIVE DictUpdate(_, _)
DictUpdate(d, other) ==
    IF other = <<>> THEN d
    ELSE DictUpdate(DictSet(d, Head(other).name, Head(other).data), Tail(other))

\* a bootstrap that loads each list from the other list's file
BootstrapSwapped(fs, persist) ==
    LET logs == load_json_file(fs, LOGS_FILE, [kind |-> "list", value |-> <<>>])
        metrics == load_json_file(fs, METRICS_FILE, [kind |-> "list", value |-> <<>>])
    IN  [logs |-> IF persist /\ metrics.kind = "list" THEN metrics.value ELSE <<>>,
         metrics |-> IF persist /\ logs.kind = "list" THEN logs.value ELSE <<>>,
         alerts |-> <<>>]

\* a bootstrap that gives up all three collections when one file is damaged
BootstrapAllOrNothing(fs, persist) ==
    LET logs == load_json_file(fs, LOGS_FILE, [kind |-> "none", value |-> <<>>])
        metrics == load_json_file(fs, METRICS_FILE, [kind |-> "none", value |-> <<>>])
        alerts == load_json_file(fs, ALERTS_FILE, [kind |-> "none", value |-> <<>>])
    IN  IF persist /\ logs.kind = "list" /\ metrics.kind = "list" /\ alerts.kind = "dict"
        THEN [logs |-> logs.value, metrics |-> metrics.value,
              alerts |-> DictUpdate(<<>>, alerts.value)]
        ELSE [logs |-> <<>>, metrics |-> <<>>, alerts |-> <<>>]

\* _bootstrap_store() on the freshly imported module (empty stores)
bootstrap_store(fs, persist) ==
    IF persist
    THEN LET logs == load_json_file(fs, LOGS_FILE, [kind |-> "list", value |-> <<>>])
             metrics == load_json_file(fs, METRICS_FILE, [kind |-> "list", value |-> <<>>])
             alerts == load_json_file(fs, ALERTS_FILE, [kind |-> "dict", value |-> <<>>])
         IN  [logs |-> IF logs.kind = "list" THEN <<>> \o logs.value ELSE <<>>,
              metrics |-> IF metrics.kind = "list" THEN <<>> \o metrics.value ELSE <<>>,
              alerts |-> IF alerts.kind = "dict" THEN DictUpdate(<<>>, alerts.value)
                         ELSE <<>>]
    ELSE [logs |-> <<>>, metrics |-> <<>>, alerts |-> <<>>]

\* the k-th store _persist saves, its path, and the JSON document of it
SavePath(k) == CASE k = 1 -> LOGS_FILE [] k = 2 -> METRICS_FILE [] OTHER -> ALERTS_FILE
SaveKind(k) == IF k = 3 THEN "dict" ELSE "list"
SaveData(k) == CASE k = 1 -> LOGS [] k = 2 -> METRICS [] OTHER -> ALERTS
SaveText(k) == json_dump(SaveData(k), SaveKind(k))

-----------------------------------------------------------------------------
(* Request payloads and stored records *)

\* LogIngest.model_dump() with entry["timestamp"] = payload.timestamp.isoformat()
LogEntry(payload) ==
    [source |-> payload.source, timestamp |-> isoformat(payload.timestamp),
     level |-> payload.level, message |-> payload.message, metadata |-> None]

\* MetricIngest.model_dump() with the timestamp as an ISO string
MetricEntry(payload) ==
    [source |-> payload.source, timestamp |-> isoformat(payload.timestamp),
     metrics |-> payload.metrics]

\* a `stored` that starts every upsert from the defaults
StoredResetsStatus(rule, current) ==
    [expression |-> rule.expression,
     severity |-> rule.severity,
     notification_channels |->
        IF rule.notification_channels.some THEN rule.notification_channels.v ELSE <<>>,
     last_triggered |-> None,
     active |-> FALSE]

\* a `stored` whose active defaults to True for a new rule
StoredActiveByDefault(rule, current) ==
    [expression |-> rule.expression,
     severity |-> rule.severity,
     notification_channels |->
        IF rule.notification_channels.some THEN rule.notification_channels.v ELSE <<>>,
     last_triggered |-> IF current.some THEN current.v.last_triggered ELSE None,
     active |-> IF current.some THEN current.v.active ELSE TRUE]

\* a `stored` that adds the channels of the rule to those already stored
StoredMergesChannels(rule, current) ==
    [expression |-> rule.expression,
     severity |-> rule.severity,
     notification_channels |->
        (IF current.some THEN current.v.notification_channels ELSE <<>>)
        \o (IF rule.notification_channels.some THEN rule.notification_channels.v ELSE <<>>),
     last_triggered |-> IF current.some THEN current.v.last_triggered ELSE None,
     active |-> IF current.some THEN current.v.active ELSE FALSE]

\* the dict `stored` that upsert_alert builds from the rule and `current`
Stored(rule, current) ==
    [expression |-> rule.expression,
     severity |-> rule.severity,
     notification_channels |->
        IF rule.notification_channels.some /\ rule.notification_channels.v # <<>>
        THEN rule.notification_channels.v ELSE <<>>,
     last_triggered |-> IF current.some THEN current.v.last_triggered ELSE None,
     active |-> IF current.some THEN current.v.active ELSE FALSE]

\* _ALERTS.get(name, {}): None stands for the empty dict
AlertsGet(d, name) == IF DictHas(d, name) THEN Some(d[DictIndex(d, name)].data) ELSE None

-----------------------------------------------------------------------------
(* Initial state: the module has been imported, _bootstrap_store() has run *)

Idle == [op |-> "idle", pc |-> "idle", arg |-> None, local |-> None, resp |-> None]

Unlocked == [held |-> FALSE, by |-> 0]

EmptyDir == [p \in Paths |-> Absent]

InitWith(persist, disks) ==
    /\ OBS_ENABLE_PERSISTENCE = persist
    /\ files \in disks
    /\ LET b == bootstrap_store(files, persist)
       IN  LOGS = b.logs /\ METRICS = b.metrics /\ ALERTS = b.alerts
    /\ store_lock = Unlocked
    /\ threads = <<>>
    /\ req = Idle
    /\ nreq = 0
    /\ restarts = 0

-----------------------------------------------------------------------------
(* The event loop: one handler at a time *)

Mutating == {"ingest_logs", "ingest_metrics", "upsert_alert"}

Accept(op, arg, pc, local, resp) ==
    /\ req.op = "idle"
    /\ IF op \in Mutating
       THEN nreq + restarts < MaxEvents /\ nreq' = nreq + 1
       ELSE nreq' = nreq
    /\ req' = [op |-> op, pc |-> pc, arg |-> arg, local |-> local, resp |-> resp]
    /\ UNCHANGED <<OBS_ENABLE_PERSISTENCE, LOGS, METRICS, ALERTS, store_lock,
                   files, threads, restarts>>

\* ingest_logs, up to `with _store_lock`
ingest_logs(payloads) ==
    /\ req.op = "idle"
    /\ \E payload \in payloads :
        Accept("ingest_logs", payload, "lock", [entry |-> LogEntry(payload)], None)

\* ingest_metrics, up to `with _store_lock`
ingest_metrics(payloads) ==
    /\ req.op = "idle"
    /\ \E payload \in payloads :
        Accept("ingest_metrics", payload, "lock", [entry |-> MetricEntry(payload)], None)

\* upsert_alert, up to `with _store_lock`
upsert_alert(rules) ==
    /\ req.op = "idle"
    /\ \E rule \in rules :
        Accept("upsert_alert", rule, "lock", [current |-> None, stored |-> None], None)

\* get_alerts, up to `with _store_lock`
get_alerts ==
    Accept("get_alerts", None, "lock", None, None)

\* get_compliance_reports, up to `with _store_lock`
get_compliance_reports ==
    Accept("get_compliance_reports", None, "lock", None, None)

\* Query(ge=1) on page and Query(ge=1, le=500) on limit: 422 before the body runs
MaxLimit == 500
QueryValid(q) == q.page >= 1 /\ q.limit >= 1 /\ q.limit <= MaxLimit

\* the try block of query_logs/query_metrics: from_ and to parsed when truthy
ParseBounds(q) ==
    LET f == IF TruthyTs(q.from) THEN fromisoformat(q.from.v) ELSE [ok |-> TRUE]
        t == IF TruthyTs(q.to) THEN fromisoformat(q.to.v) ELSE [ok |-> TRUE]
    IN  [ok |-> f.ok /\ t.ok,
         start_dt |-> IF TruthyTs(q.from) /\ f.ok THEN Some(f.dt) ELSE None,
         end_dt |-> IF TruthyTs(q.to) /\ t.ok THEN Some(t.dt) ELSE None]

\* query_logs/query_metrics, up to the call of the filter: the validation of
\* the query parameters (422), then the parsing of from and to (400)
Query(op, queries) ==
    /\ req.op = "idle"
    /\ \E q \in queries :
        IF ~QueryValid(q)
        THEN Accept(op, q, "done", None, [code |-> 422])
        ELSE LET b == ParseBounds(q)
             IN  IF ~b.ok
                 THEN Accept(op, q, "done", None, [code |-> 400])
                 ELSE Accept(op, q, "lock",
                             [start_dt |-> b.start_dt, end_dt |-> b.end_dt,
                              results |-> <<>>], None)

query_logs(queries) == Query("query_logs", queries)
query_metrics(queries) == Query("query_metrics", queries)

\* `with _store_lock:` entered by the handler (it blocks the event loop)
HandlerAcquire ==
    /\ req.pc = "lock"
    /\ ~store_lock.held
    /\ store_lock' = [held |-> TRUE, by |-> 0]
    /\ req' = [req EXCEPT !.pc = "body"]
    /\ UNCHANGED <<OBS_ENABLE_PERSISTENCE, LOGS, METRICS, ALERTS, files, threads,
                   nreq, restarts>>

\* a list that takes its new entry in front
ListInsertFront(list, entry) == <<entry>> \o list
\* list.append(entry)
ListAppend(list, entry) == Append(list, entry)

\* _LOGS.append(entry)
ingest_logs_body ==
    /\ req.op = "ingest_logs" /\ req.pc = "body"
    /\ LOGS' = ListAppend(LOGS, req.local.entry)
    /\ req' = [req EXCEPT !.pc = "unlock"]
    /\ UNCHANGED <<OBS_ENABLE_PERSISTENCE, METRICS, ALERTS, store_lock, files,
                   threads, nreq, restarts>>

\* _METRICS.append(entry)
ingest_metrics_body ==
    /\ req.op = "ingest_metrics" /\ req.pc = "body"
    /\ METRICS' = ListAppend(METRICS, req.local.entry)
    /\ req' = [req EXCEPT !.pc = "unlock"]
    /\ UNCHANGED <<OBS_ENABLE_PERSISTENCE, LOGS, ALERTS, store_lock, files,
                   threads, nreq, restarts>>

\* current = _ALERTS.get(...); stored = {...}; _ALERTS[rule.name] = stored
upsert_alert_body ==
    /\ req.op = "upsert_alert" /\ req.pc = "body"
    /\ LET current == AlertsGet(ALERTS, req.arg.name)
           stored == Stored(req.arg, current)
       IN  /\ ALERTS' = DictSet(ALERTS, req.arg.name, stored)
           /\ req' = [req EXCEPT !.pc = "unlock",
                                 !.local = [current |-> current, stored |-> stored]]
    /\ UNCHANGED <<OBS_ENABLE_PERSISTENCE, LOGS, METRICS, store_lock, files,
                   threads, nreq, restarts>>

\* alerts = [dict(name=name, **data) for name, data in _ALERTS.items()]
get_alerts_body ==
    /\ req.op = "get_alerts" /\ req.pc = "body"
    /\ req' = [req EXCEPT !.pc = "unlock", !.local = [alerts |-> ALERTS]]
    /\ UNCHANGED <<OBS_ENABLE_PERSISTENCE, LOGS, METRICS, ALERTS, store_lock,
                   files, threads, nreq, restarts>>

\* counts that take the length of the logs for the metrics too
ComplianceCountsLogsTwice(logs, metrics, alerts) ==
    [total_logs |-> Len(logs), total_metrics |-> Len(logs), alerts_count |-> Len(alerts)]
\* total_logs = len(_LOGS); total_metrics = len(_METRICS); alerts_count = len(_ALERTS)
ComplianceCounts(logs, metrics, alerts) ==
    [total_logs |-> Len(logs), total_metrics |-> Len(metrics), alerts_count |-> Len(alerts)]

\* the with block of get_compliance_reports
get_compliance_reports_body ==
    /\ req.op = "get_compliance_reports" /\ req.pc = "body"
    /\ req' = [req EXCEPT !.pc = "unlock",
                          !.local = ComplianceCounts(LOGS, METRICS, ALERTS)]
    /\ UNCHANGED <<OBS_ENABLE_PERSISTENCE, LOGS, METRICS, ALERTS, store_lock,
                   files, threads, nreq, restarts>>

\* a filter whose TypeError leaves the lock taken
FilterBodyKeepsLock(op, r) ==
    /\ req.op = op /\ req.pc = "body"
    /\ IF r.err
       THEN req' = [req EXCEPT !.pc = "done", !.resp = [code |-> 500]]
       ELSE req' = [req EXCEPT !.pc = "unlock", !.local.results = r.items]
    /\ UNCHANGED <<OBS_ENABLE_PERSISTENCE, LOGS, METRICS, ALERTS, store_lock, files,
                   threads, nreq, restarts>>

\* the for loop of _filter_logs/_filter_metrics under the lock; a TypeError
\* leaves the with block (the lock is released) and the request ends in a 500
FilterBody(op, r) ==
    /\ req.op = op /\ req.pc = "body"
    /\ IF r.err
       THEN /\ req' = [req EXCEPT !.pc = "done", !.resp = [code |-> 500]]
            /\ store_lock' = Unlocked
       ELSE /\ req' = [req EXCEPT !.pc = "unlock", !.local.results = r.items]
            /\ UNCHANGED store_lock
    /\ UNCHANGED <<OBS_ENABLE_PERSISTENCE, LOGS, METRICS, ALERTS, files, threads,
                   nreq, restarts>>

filter_logs_body ==
    FilterBody("query_logs",
               LogsLoop(LOGS, req.arg.source, req.arg.level,
                        req.local.start_dt, req.local.end_dt))

filter_metrics_body ==
    FilterBody("query_metrics",
               MetricsLoop(METRICS, req.arg.source, req.arg.metric,
                           req.local.start_dt, req.local.end_dt))

\* the end of `with _store_lock:` in the handler
HandlerRelease ==
    /\ req.pc = "unlock"
    /\ store_lock' = Unlocked
    /\ req' = [req EXCEPT !.pc = "after"]
    /\ UNCHANGED <<OBS_ENABLE_PERSISTENCE, LOGS, METRICS, ALERTS, files, threads,
                   nreq, restarts>>

NewThread == [pc |-> "acquire", k |-> 1, n |-> 0]

\* _persist_async called by the ingest handlers only
persist_async_ingest_only ==
    /\ req.op \in Mutating /\ req.pc = "after"
    /\ threads' = IF OBS_ENABLE_PERSISTENCE /\ req.op # "upsert_alert"
                  THEN Append(threads, NewThread)
                  ELSE threads
    /\ req' = [req EXCEPT !.pc = "return"]
    /\ UNCHANGED <<OBS_ENABLE_PERSISTENCE, LOGS, METRICS, ALERTS, store_lock,
                   files, nreq, restarts>>

\* _persist_async(): one more daemon thread, unless persistence is disabled
persist_async ==
    /\ req.op \in Mutating /\ req.pc = "after"
    /\ threads' = IF OBS_ENABLE_PERSISTENCE
                  THEN Append(threads, NewThread)
                  ELSE threads
    /\ req' = [req EXCEPT !.pc = "return"]
    /\ UNCHANGED <<OBS_ENABLE_PERSISTENCE, LOGS, METRICS, ALERTS, store_lock,
                   files, nreq, restarts>>

\* upsert_alert answering with the rule of the request instead of the record
UpsertResponseEchoesRule ==
    [code |-> 200, status |-> "ok", name |-> req.arg.name,
     rule |-> [expression |-> req.arg.expression, severity |-> req.arg.severity,
               notification_channels |->
                   IF req.arg.notification_channels.some
                   THEN req.arg.notification_channels.v ELSE <<>>,
               last_triggered |-> None, active |-> FALSE]]

\* return {"status": "ok", "name": rule.name, "rule": _ALERTS[rule.name]}:
\* the store is read again, after the with block
UpsertResponse ==
    [code |-> 200, status |-> "ok", name |-> req.arg.name,
     rule |-> AlertsGet(ALERTS, req.arg.name).v]

\* the return statement of the handler
Response ==
    CASE req.op \in {"ingest_logs", "ingest_metrics"} ->
            [code |-> 200, status |-> "ok", ingested |-> 1]
      [] req.op = "upsert_alert" -> UpsertResponse
      [] req.op = "get_alerts" ->
            [code |-> 200, alerts |-> req.local.alerts, count |-> Len(req.local.alerts)]
      [] req.op = "get_compliance_reports" ->
            [code |-> 200, total_logs |-> req.local.total_logs,
             total_metrics |-> req.local.total_metrics,
             alert_rules |-> req.local.alerts_count]
      [] OTHER ->
            LET p == paginate(SortDesc(req.local.results), req.arg.page, req.arg.limit)
            IN  [code |-> 200, items |-> p.items, page |-> req.arg.page,
                 limit |-> req.arg.limit, total |-> p.total]

HandlerReturn ==
    /\ \/ req.op \in Mutating /\ req.pc = "return"
       \/ req.op \notin Mutating /\ req.pc = "after"
    /\ req' = [req EXCEPT !.pc = "done", !.resp = Response]
    /\ UNCHANGED <<OBS_ENABLE_PERSISTENCE, LOGS, METRICS, ALERTS, store_lock,
                   files, threads, nreq, restarts>>

\* the response is sent; the event loop takes the next request
HandlerFinish ==
    /\ req.pc = "done"
    /\ req' = Idle
    /\ UNCHANGED <<OBS_ENABLE_PERSISTENCE, LOGS, METRICS, ALERTS, store_lock,
                   files, threads, nreq, restarts>>

-----------------------------------------------------------------------------
(* The _persist threads *)

ThreadIds == 1..Len(threads)

HeldBy(t) == store_lock.held /\ store_lock.by = t

\* a _persist that starts writing without the lock
PersistAcquireNoLock(t) ==
    /\ threads[t].pc = "acquire"
    /\ threads' = [threads EXCEPT ![t].pc = "open"]
    /\ UNCHANGED store_lock

\* `with _store_lock:` entered by _persist
PersistAcquireLock(t) ==
    /\ threads[t].pc = "acquire"
    /\ ~store_lock.held
    /\ store_lock' = [held |-> TRUE, by |-> t]
    /\ threads' = [threads EXCEPT ![t].pc = "open"]

PersistAcquire ==
    \E t \in ThreadIds :
        /\ PersistAcquireLock(t)
        /\ UNCHANGED <<OBS_ENABLE_PERSISTENCE, LOGS, METRICS, ALERTS, files, req,
                       nreq, restarts>>

\* _save_json_file: open(tmp, "w") creates or truncates the temporary file
SaveOpen ==
    \E t \in ThreadIds :
        /\ threads[t].pc = "open"
        /\ OBS_ENABLE_PERSISTENCE
        /\ files' = [files EXCEPT ![TmpOf(SavePath(threads[t].k))] =
                        [exists |-> TRUE, text |-> <<>>]]
        /\ threads' = [threads EXCEPT ![t].pc = "write", ![t].n = 0]
        /\ UNCHANGED <<OBS_ENABLE_PERSISTENCE, LOGS, METRICS, ALERTS, store_lock,
                       req, nreq, restarts>>

\* _save_json_file: json.dump writes the next chunk; after the last one the
\* file is closed
SaveWrite ==
    \E t \in ThreadIds :
        /\ threads[t].pc = "write"
        /\ LET text == SaveText(threads[t].k)
               tmp == TmpOf(SavePath(threads[t].k))
               n == threads[t].n
           IN  /\ n < Len(text)
               /\ files' = [files EXCEPT ![tmp].text = Append(@, text[n + 1])]
               /\ threads' = [threads EXCEPT
                                ![t].n = n + 1,
                                ![t].pc = IF n + 1 = Len(text) THEN "replace" ELSE "write"]
        /\ UNCHANGED <<OBS_ENABLE_PERSISTENCE, LOGS, METRICS, ALERTS, store_lock,
                       req, nreq, restarts>>

\* _save_json_file: os.replace(tmp, path); then the next store, or the end
SaveReplace ==
    \E t \in ThreadIds :
        /\ threads[t].pc = "replace"
        /\ LET path == SavePath(threads[t].k)
               tmp == TmpOf(path)
           IN  files' = IF tmp = path THEN files
                        ELSE [files EXCEPT ![path] = files[tmp], ![tmp] = Absent]
        /\ threads' = [threads EXCEPT
                         ![t].k = IF @ < 3 THEN @ + 1 ELSE @,
                         ![t].n = 0,
                         ![t].pc = IF threads[t].k < 3 THEN "open" ELSE "release"]
        /\ UNCHANGED <<OBS_ENABLE_PERSISTENCE, LOGS, METRICS, ALERTS, store_lock,
                       req, nreq, restarts>>

\* the end of `with _store_lock:` in _persist; the thread ends
PersistRelease ==
    \E t \in ThreadIds :
        /\ threads[t].pc = "release"
        /\ store_lock' = IF HeldBy(t) THEN Unlocked ELSE store_lock
        /\ threads' = [threads EXCEPT ![t] = [pc |-> "done", k |-> 0, n |-> 0]]
        /\ UNCHANGED <<OBS_ENABLE_PERSISTENCE, LOGS, METRICS, ALERTS, files, req,
                       nreq, restarts>>

\* a failure that ends the thread with the lock still taken
SaveFailKeepsLock(t) ==
    /\ threads' = [threads EXCEPT ![t] = [pc |-> "failed", k |-> 0, n |-> 0]]
    /\ UNCHANGED store_lock

\* an OSError in open, write or os.replace: the exception leaves both with
\* blocks (the file is closed as it is, the lock is released) and ends the thread
SaveFailUnwind(t) ==
    /\ threads' = [threads EXCEPT ![t] = [pc |-> "failed", k |-> 0, n |-> 0]]
    /\ store_lock' = IF HeldBy(t) THEN Unlocked ELSE store_lock

SaveFail ==
    \E t \in ThreadIds :
        /\ threads[t].pc \in {"open", "write", "replace"}
        /\ SaveFailUnwind(t)
        /\ UNCHANGED <<OBS_ENABLE_PERSISTENCE, LOGS, METRICS, ALERTS, files, req,
                       nreq, restarts>>

-----------------------------------------------------------------------------
(* The process *)

\* the process dies at any point (its daemon threads with it) and is started
\* again: the module is imported, the stores are empty, _bootstrap_store() runs
Restart ==
    /\ nreq + restarts < MaxEvents
    /\ restarts' = restarts + 1
    /\ LET b == bootstrap_store(files, OBS_ENABLE_PERSISTENCE)
       IN  LOGS' = b.logs /\ METRICS' = b.metrics /\ ALERTS' = b.alerts
    /\ store_lock' = Unlocked
    /\ threads' = <<>>
    /\ req' = Idle
    /\ UNCHANGED <<OBS_ENABLE_PERSISTENCE, files, nreq>>

-----------------------------------------------------------------------------
(* Inputs *)

\* 01:00+00:00, 02:00+00:00, 01:00+01:00, 02:00+01:00 and the naive 01:00
T1utc == DateTime(1, TRUE, 0)
T2utc == DateTime(2, TRUE, 0)
T1plus1 == DateTime(1, TRUE, 1)
T2plus1 == DateTime(2, TRUE, 1)
T1naive == DateTime(1, FALSE, 0)

LogPayload(source, ts, level, message) ==
    [source |-> source, timestamp |-> ts, level |-> level, message |-> message]
MetricPayload(source, ts, metrics) ==
    [source |-> source, timestamp |-> ts, metrics |-> metrics]
Rule(name, expression, severity, channels) ==
    [name |-> name, expression |-> expression, severity |-> severity,
     notification_channels |-> channels]
LogQuery(source, level, from, to, page, limit) ==
    [source |-> source, level |-> level, from |-> from, to |-> to,
     page |-> page, limit |-> limit]
MetricQuery(source, metric, from, to, page, limit) ==
    [source |-> source, metric |-> metric, from |-> from, to |-> to,
     page |-> page, limit |-> limit]

\* the requests of the persistence runs
SpecLogs == {LogPayload("b", T1plus1, "INFO", "y")}
SpecMetrics == {MetricPayload("a", T1utc, {<<"cpu", 1>>})}
SpecRules ==
    {Rule("r1", "e", "warning", None), Rule("r1", "e2", "critical", Some(<<"email">>)),
     Rule("r2", "e", "warning", Some(<<>>))}

\* the requests of the query runs
QueryLogs ==
    {LogPayload(sl[1], ts, sl[2], "x") :
        sl \in {<<"a", "ERROR">>, <<"a", "INFO">>, <<"b", "INFO">>},
        ts \in {T1utc, T2utc, T1plus1, T1naive}}
QueryMetrics ==
    {MetricPayload("a", T1utc, {<<"cpu", 1>>}), MetricPayload("a", T1plus1, {}),
     MetricPayload("b", T1naive, {<<"cpu", 1>>, <<"mem", 2>>}),
     MetricPayload("b", T1utc, {<<"mem", 2>>})}
BadTimestamp == <<120>>
QueryLogQueries ==
    {LogQuery(src, lvl, f, t, pg, 1) :
        src \in {None, Some("a")}, lvl \in {None, Some("ERROR")},
        f \in {None, Some(BadTimestamp), Some(isoformat(T1utc)), Some(isoformat(T1naive))},
        t \in {None, Some(isoformat(T1utc))}, pg \in {1, 2}}
    \cup {LogQuery(None, None, None, None, 0, 1), LogQuery(None, None, None, None, 1, 0),
          LogQuery(None, None, None, None, 1, MaxLimit + 1),
          LogQuery(Some(""), Some(""), Some(<<>>), Some(<<>>), 1, 2)}
QueryMetricQueries ==
    {MetricQuery(None, m, f, None, 1, lim) :
        m \in {None, Some("cpu")}, f \in {None, Some(isoformat(T1naive))},
        lim \in {1, 2}}
    \cup {MetricQuery(Some("b"), Some(""), None, Some(BadTimestamp), 1, 1),
          MetricQuery(Some("b"), None, None, Some(isoformat(T2plus1)), 2, 1)}

\* a data directory left by an earlier run, whose alerts file was edited by
\* hand to mark rule r1 as triggered
PriorAlert ==
    [name |-> "r1",
     data |-> [expression |-> "e", severity |-> "warning",
               notification_channels |-> <<>>,
               last_triggered |-> Some(isoformat(T1utc)), active |-> TRUE]]
PriorRun ==
    [p \in Paths |->
        CASE p = LOGS_FILE ->
                [exists |-> TRUE,
                 text |-> json_dump(<<LogEntry(LogPayload("a", T1utc, "ERROR", "x"))>>, "list")]
          [] p = METRICS_FILE -> [exists |-> TRUE, text |-> json_dump(<<>>, "list")]
          [] p = ALERTS_FILE -> [exists |-> TRUE, text |-> json_dump(<<PriorAlert>>, "dict")]
          [] OTHER -> Absent]

-----------------------------------------------------------------------------
(* Specifications *)

\* persistence enabled: handlers, _persist threads, write failures, restarts
Init == InitWith(TRUE, {EmptyDir, PriorRun})

Next ==
    \/ ingest_logs(SpecLogs)
    \/ ingest_metrics(SpecMetrics)
    \/ upsert_alert(SpecRules)
    \/ HandlerAcquire
    \/ ingest_logs_body
    \/ ingest_metrics_body
    \/ upsert_alert_body
    \/ HandlerRelease
    \/ persist_async
    \/ HandlerReturn
    \/ HandlerFinish
    \/ PersistAcquire
    \/ SaveOpen
    \/ SaveWrite
    \/ SaveReplace
    \/ PersistRelease
    \/ SaveFail
    \/ Restart

Spec == Init /\ [][Next]_vars

\* persistence disabled: every handler, on stores of every content
InitQuery == InitWith(FALSE, {EmptyDir})

NextQuery ==
    \/ ingest_logs(QueryLogs)
    \/ ingest_metrics(QueryMetrics)
    \/ upsert_alert(SpecRules)
    \/ query_logs(QueryLogQueries)
    \/ query_metrics(QueryMetricQueries)
    \/ get_alerts
    \/ get_compliance_reports
    \/ HandlerAcquire
    \/ ingest_logs_body
    \/ ingest_metrics_body
    \/ upsert_alert_body
    \/ filter_logs_body
    \/ filter_metrics_body
    \/ get_alerts_body
    \/ get_compliance_reports_body
    \/ HandlerRelease
    \/ persist_async
    \/ HandlerReturn
    \/ HandlerFinish

SpecQuery == InitQuery /\ [][NextQuery]_vars

-----------------------------------------------------------------------------
(* Properties of the queries (SpecQuery) *)

Range(seq) == {seq[i] : i \in 1..Len(seq)}
BagOfSeq(seq) == [x \in Range(seq) |-> Cardinality({i \in 1..Len(seq) : seq[i] = x})]

EntryInstant(e) == Instant(EntryTs(e))
NewestFirst(seq) ==
    \A i \in 1..(Len(seq) - 1) : EntryInstant(seq[i]) >= EntryInstant(seq[i + 1])

\* the same, asked only of the pairs of timestamps Python itself can compare
\* (both with a UTC offset, or both without)
NewestFirstWhereComparable(seq) ==
    \A i, j \in 1..Len(seq) :
        i < j /\ DtComparable(EntryTs(seq[i]), EntryTs(seq[j]))
            => ~DtLess(EntryTs(seq[i]), EntryTs(seq[j]))

\* the filter arguments the properties range over
ArgSources == {None, Some(""), Some("a"), Some("b")}
ArgLevels == {None, Some(""), Some("INFO"), Some("ERROR")}
ArgMetricNames == {None, Some(""), Some("cpu"), Some("mem")}
ArgBounds == {None, Some(T1utc), Some(T1plus1), Some(T2plus1), Some(T1naive)}

\* C1: a log query without filters and with limit <= 0 returns the ingested
\* entries, each exactly once, latest instant first.
C1_UnfilteredNewestFirst ==
    \A page \in {1, 2}, limit \in {-1, 0} :
        LET r == filter_logs(LOGS, None, None, None, None)
            out == paginate(r.items, page, limit).items
        IN  /\ ~r.err
            /\ BagOfSeq(out) = BagOfSeq(LOGS)
            /\ NewestFirstWhereComparable(out)

\* what the filters select: every supplied predicate holds, bounds inclusive
InBounds(e, start, end) ==
    /\ start.some => EntryInstant(e) >= Instant(start.v)
    /\ end.some => EntryInstant(e) <= Instant(end.v)
LogSelected(e, source, level, start, end) ==
    /\ source.some => e.source = source.v
    /\ level.some => e.level = level.v
    /\ InBounds(e, start, end)
MetricSelected(e, source, metric_name, start, end) ==
    /\ source.some => e.source = source.v
    /\ metric_name.some => \E kv \in e.metrics : kv[1] = metric_name.v
    /\ InBounds(e, start, end)

\* C2: _filter_logs and _filter_metrics return exactly the stored entries that
\* satisfy all supplied predicates, for every combination of filters.
C2_FilterExact ==
    /\ \A source \in ArgSources, level \in ArgLevels, start \in ArgBounds, end \in ArgBounds :
        LET r == filter_logs(LOGS, source, level, start, end)
        IN  /\ ~r.err
            /\ BagOfSeq(r.items) =
                 BagOfSeq(SelectSeq(LOGS, LAMBDA e : LogSelected(e, source, level, start, end)))
    /\ \A source \in ArgSources, name \in ArgMetricNames, start \in ArgBounds, end \in ArgBounds :
        LET r == filter_metrics(METRICS, source, name, start, end)
        IN  /\ ~r.err
            /\ BagOfSeq(r.items) =
                 BagOfSeq(SelectSeq(METRICS,
                                    LAMBDA e : MetricSelected(e, source, name, start, end)))

\* pages first..last of `seq`, one after the other
RECURSIVE ConcatPages(_, _, _, _)
ConcatPages(seq, limit, first, last) ==
    IF first > last THEN <<>>
    ELSE paginate(seq, first, limit).items \o ConcatPages(seq, limit, first + 1, last)

PagesPartition(seq) ==
    \A limit \in 1..(Len(seq) + 1) :
        LET N == Len(seq)
            P == (N + limit - 1) \div limit
        IN  /\ \A page \in 1..P : paginate(seq, page, limit).items # <<>>
            /\ \A page \in (P + 1)..(P + 2) : paginate(seq, page, limit).items = <<>>
            /\ ConcatPages(seq, limit, 1, P) = seq
            /\ \A page \in 1..P :
                   paginate(seq, page, limit).items =
                       SubSeq(seq, (page - 1) * limit + 1, Min(page * limit, N))

\* the filtered and sorted sequence the handler paginates, once its loop is done
HandlerSorted == SortDesc(req.local.results)
QueryPaginating ==
    req.op \in {"query_logs", "query_metrics"} /\ req.pc \in {"unlock", "after"}

\* C3: for limit >= 1 the pages 1..ceil(N/L) of _paginate are non-empty, the
\* later ones empty, and the pages in order are the sequence itself; page 2
\* with limit 1 of a two-entry newest-first sequence is its older entry alone.
C3_PagesPartition ==
    /\ QueryPaginating =>
        /\ PagesPartition(HandlerSorted)
        /\ Len(HandlerSorted) = 2 /\ NewestFirst(HandlerSorted) =>
              LET page2 == paginate(HandlerSorted, 2, 1).items
              IN  /\ page2 = <<HandlerSorted[2]>>
                  /\ EntryInstant(page2[1]) <= EntryInstant(HandlerSorted[1])
    /\ req.op \in {"query_logs", "query_metrics"} /\ req.pc = "done" /\ req.resp.code = 200 =>
        /\ req.resp.total = Len(req.local.results)
        /\ req.resp.items =
             SubSeq(SortDesc(req.local.results),
                    (req.arg.page - 1) * req.arg.limit + 1,
                    Min(req.arg.page * req.arg.limit, Len(req.local.results)))

\* page 2 with limit 1 over two logs has been answered with the older one
C3_Witness ==
    /\ req.op = "query_logs" /\ req.pc = "done" /\ req.resp.code = 200
    /\ req.arg.page = 2 /\ req.arg.limit = 1
    /\ Len(LOGS) = 2 /\ Len(req.local.results) = 2
    /\ Len(req.resp.items) = 1
    /\ \E e \in Range(LOGS) : EntryInstant(e) > EntryInstant(req.resp.items[1])

\* a filter string that was not sent, or sent with a value
Plain(opt) == ~opt.some \/ opt.v # ""

\* the number of stored logs the filters of the running query select
LogMatches ==
    Cardinality({i \in 1..Len(LOGS) :
                    LogSelected(LOGS[i], req.arg.source, req.arg.level,
                                req.local.start_dt, req.local.end_dt)})
MetricMatches ==
    Cardinality({i \in 1..Len(METRICS) :
                    MetricSelected(METRICS[i], req.arg.source, req.arg.metric,
                                   req.local.start_dt, req.local.end_dt)})

\* the handler has returned its answer
Answered(op) == req.op = op /\ req.pc = "done" /\ req.resp.code = 200

\* C16: the total of an answered query is the number of entries its filter
\* selected from the store, whatever the page and the limit, also when the
\* page lies beyond the last entry and items is empty.
C16_TotalBeforePagination ==
    /\ Answered("query_logs") =>
          LET r == filter_logs(LOGS, req.arg.source, req.arg.level,
                               req.local.start_dt, req.local.end_dt)
          IN  /\ ~r.err
              /\ req.resp.total = Len(r.items)
              /\ \A page \in 1..3, limit \in 1..3 :
                    paginate(r.items, page, limit).total = req.resp.total
              /\ (req.arg.page - 1) * req.arg.limit >= req.resp.total
                    => req.resp.items = <<>>
              /\ Len(req.resp.items) <= req.resp.total
              /\ Plain(req.arg.source) /\ Plain(req.arg.level)
                    => req.resp.total = LogMatches
    /\ Answered("query_metrics") =>
          LET r == filter_metrics(METRICS, req.arg.source, req.arg.metric,
                                  req.local.start_dt, req.local.end_dt)
          IN  /\ ~r.err
              /\ req.resp.total = Len(r.items)
              /\ \A page \in 1..3, limit \in 1..3 :
                    paginate(r.items, page, limit).total = req.resp.total
              /\ (req.arg.page - 1) * req.arg.limit >= req.resp.total
                    => req.resp.items = <<>>
              /\ Plain(req.arg.source) /\ Plain(req.arg.metric)
                    => req.resp.total = MetricMatches

\* of two stored logs one is an ERROR; page 2 of the ERROR logs, one to a
\* page, has been answered with no item and total 1
C16_Witness ==
    /\ Answered("query_logs")
    /\ req.arg.level = Some("ERROR") /\ req.arg.page = 2 /\ req.arg.limit = 1
    /\ Len(LOGS) = 2
    /\ req.resp.total = 1 /\ req.resp.items = <<>>

\* the entries of `matches` that a stable descending sort puts before the
\* i-th: those of a greater key, and those of the same key inserted earlier
Before(matches, i) ==
    {j \in 1..Len(matches) :
        \/ StrLess(matches[i].timestamp, matches[j].timestamp)
        \/ matches[j].timestamp = matches[i].timestamp /\ j < i}

\* C20: the k-th entry of an answered page is the match that has exactly
\* (page - 1) * limit + k - 1 matches before it, counting as before it the
\* matches of a greater stored timestamp and the matches of the same stored
\* timestamp that were inserted earlier; the page is fixed by the store.
C20_TiesInInsertionOrder ==
    Answered("query_logs") \/ Answered("query_metrics") =>
        LET matches == req.local.results
            offset == (req.arg.page - 1) * req.arg.limit
        IN  \A k \in 1..Len(req.resp.items) :
                \E i \in 1..Len(matches) :
                    /\ req.resp.items[k] = matches[i]
                    /\ Cardinality(Before(matches, i)) = offset + k - 1

\* two different logs of one stored timestamp match, and page 2 of limit 1
\* is the one inserted second
C20_Witness ==
    /\ Answered("query_logs")
    /\ req.arg.page = 2 /\ req.arg.limit = 1
    /\ Len(req.local.results) = 2
    /\ req.local.results[1].timestamp = req.local.results[2].timestamp
    /\ req.local.results[1] # req.local.results[2]
    /\ req.resp.items = <<req.local.results[2]>>

\* a from or to that was sent and is not an ISO timestamp
Unparsable(opt) == opt.some /\ ~fromisoformat(opt.v).ok

\* C13: a query whose from or to cannot be parsed as a timestamp ends in a
\* 400 at once: it never waits for the store lock, never holds it, and is
\* never answered from the store.
C13_BadBoundsRejected ==
    (/\ req.op \in {"query_logs", "query_metrics"}
     /\ QueryValid(req.arg)
     /\ Unparsable(req.arg.from) \/ Unparsable(req.arg.to))
        => req.pc = "done" /\ req.resp.code = 400

-----------------------------------------------------------------------------
(* Properties of the store and of its snapshots (Spec) *)

Writing(t) == threads[t].pc \in {"open", "write", "replace"}

\* this step is the with block of upsert_alert
UpsertStep ==
    req.op = "upsert_alert" /\ req.pc = "body" /\ req'.op = "upsert_alert" /\ req'.pc = "unlock"

\* C4: upserting a rule whose name exists keeps its last_triggered and active
\* and takes expression, severity and notification_channels from the request
\* (no channels given: the empty list).
C4_UpsertKeepsStatus ==
    [][UpsertStep =>
        /\ \E i \in 1..Len(ALERTS') :
              /\ ALERTS'[i].name = req.arg.name
              /\ ALERTS'[i].data.expression = req.arg.expression
              /\ ALERTS'[i].data.severity = req.arg.severity
              /\ ALERTS'[i].data.notification_channels =
                    (IF req.arg.notification_channels.some
                     THEN req.arg.notification_channels.v ELSE <<>>)
              /\ \A j \in 1..Len(ALERTS) :
                    ALERTS[j].name = req.arg.name =>
                        /\ ALERTS'[i].data.last_triggered = ALERTS[j].data.last_triggered
                        /\ ALERTS'[i].data.active = ALERTS[j].data.active
        /\ Cardinality({i \in 1..Len(ALERTS') : ALERTS'[i].name = req.arg.name}) = 1
      ]_vars

\* a triggered, active rule has been upserted with another severity
C4_Witness ==
    /\ req.op = "upsert_alert" /\ req.pc = "unlock"
    /\ req.local.current.some
    /\ req.local.current.v.active
    /\ req.local.current.v.last_triggered.some
    /\ req.local.current.v.severity # req.arg.severity
    /\ \E i \in 1..Len(ALERTS) :
          /\ ALERTS[i].name = req.arg.name
          /\ ALERTS[i].data.active
          /\ ALERTS[i].data.severity = req.arg.severity

\* a complete JSON document: brackets that match around whole items
CompleteSnapshot(f) ==
    /\ f.exists
    /\ Len(f.text) >= 2
    /\ f.text[1].t = "open" /\ f.text[Len(f.text)].t = "close"
    /\ f.text[1].kind = f.text[Len(f.text)].kind
    /\ \A i \in 2..(Len(f.text) - 1) : f.text[i].t = "item"

\* C5: the file at a final path is absent or one complete snapshot at every
\* instant, crashes included; it changes only by the rename of a complete
\* temporary file.
C5_SnapshotsAtomic ==
    /\ [](\A p \in FinalPaths : files[p].exists => CompleteSnapshot(files[p]))
    /\ [][\A p \in FinalPaths :
            files'[p] # files[p] =>
                /\ CompleteSnapshot(files'[p])
                /\ files'[p] = files[p \o ".tmp"]
                /\ ~files'[p \o ".tmp"].exists
                /\ \E t \in ThreadIds : threads[t].pc = "replace"
         ]_vars

\* the process was restarted while a temporary file was half written, and the
\* snapshot beside it is whole
C5_Witness ==
    /\ restarts > 0 /\ threads = <<>>
    /\ \E p \in FinalPaths :
          /\ files[p \o ".tmp"].exists
          /\ ~CompleteSnapshot(files[p \o ".tmp"])
          /\ Len(files[p \o ".tmp"].text) > 0
          /\ CompleteSnapshot(files[p])

\* C6: no flush thread holds the store lock while it writes a snapshot file,
\* so an ingest arriving during the write is not kept waiting for the lock.
C6_WritesOutsideLock ==
    /\ \A t \in ThreadIds : Writing(t) => ~HeldBy(t)
    /\ (req.pc = "lock" /\ \E t \in ThreadIds : Writing(t)) => ~store_lock.held

\* this step is the failure of a disk write in thread t
FailStep(t) ==
    /\ Writing(t)
    /\ Len(threads') = Len(threads)
    /\ threads'[t].pc = "failed"

\* C8: a failed disk write leaves the stores and the request as they are and
\* releases the lock; the mutating request answers ok; a failed thread never
\* holds the lock.
C8_FlushFailureSwallowed ==
    /\ [](\A t \in ThreadIds : threads[t].pc = "failed" => ~HeldBy(t))
    /\ [](req.op \in Mutating /\ req.pc = "done" =>
              req.resp.code = 200 /\ req.resp.status = "ok")
    /\ [][\A t \in ThreadIds :
            FailStep(t) =>
                /\ LOGS' = LOGS /\ METRICS' = METRICS /\ ALERTS' = ALERTS
                /\ req' = req
                /\ ~store_lock'.held
         ]_vars

\* a flush failed, the request that started it answered ok, its mutation is
\* in the store, and a later flush ran to its end
C8_Witness ==
    /\ Len(threads) = 2
    /\ threads[1].pc = "failed" /\ threads[2].pc = "done"
    /\ req.op = "ingest_metrics" /\ req.pc = "done" /\ req.resp.status = "ok"
    /\ Len(METRICS) > 0
    /\ ~store_lock.held

\* the three writes of thread t are done and it still holds the lock
Flushed(t) == threads[t].pc = "release"

\* C9: bootstrapping an empty store from the files of a completed flush
\* gives the flushed logs, metrics and alerts, so every query answers alike.
C9_ReloadEqualsFlushed ==
    /\ [](\A t \in ThreadIds :
            Flushed(t) =>
                LET b == bootstrap_store(files, OBS_ENABLE_PERSISTENCE)
                IN  /\ b.logs = LOGS /\ b.metrics = METRICS /\ b.alerts = ALERTS
                    /\ \A source \in ArgSources, start \in ArgBounds :
                          /\ filter_logs(b.logs, source, None, start, None)
                               = filter_logs(LOGS, source, None, start, None)
                          /\ filter_metrics(b.metrics, source, None, start, None)
                               = filter_metrics(METRICS, source, None, start, None))
    /\ [][(restarts' = restarts + 1 /\ \E t \in ThreadIds : Flushed(t)) =>
            LOGS' = LOGS /\ METRICS' = METRICS /\ ALERTS' = ALERTS]_vars

\* the process has just been restarted and came back with a metric or a rule
\* that the run before it had ingested and flushed
C9_Witness ==
    /\ restarts > 0 /\ threads = <<>> /\ req = Idle
    /\ Len(METRICS) > 0 \/ \E i \in 1..Len(ALERTS) : ALERTS[i].name = "r2"
    /\ \A k \in 1..3 : files[SavePath(k)] = [exists |-> TRUE, text |-> SaveText(k)]

\* what upsert_alert stores, from the request and the record it replaces
ExpectedRecord(rule, prior) ==
    [expression |-> rule.expression,
     severity |-> rule.severity,
     notification_channels |->
        IF rule.notification_channels.some THEN rule.notification_channels.v ELSE <<>>,
     last_triggered |-> IF prior.some THEN prior.v.last_triggered ELSE None,
     active |-> IF prior.some THEN prior.v.active ELSE FALSE]

SameFields(data, rule) ==
    /\ data.expression = rule.expression
    /\ data.severity = rule.severity
    /\ data.notification_channels =
          (IF rule.notification_channels.some THEN rule.notification_channels.v ELSE <<>>)

\* C17: upserting a rule whose fields are those already stored under its name
\* leaves the registry as it is, and the call returns the record that was
\* stored before it, which is what the first upsert returned.
C17_UpsertIdempotent ==
    /\ [][(/\ UpsertStep
           /\ \E j \in 1..Len(ALERTS) :
                 ALERTS[j].name = req.arg.name /\ SameFields(ALERTS[j].data, req.arg))
             => ALERTS' = ALERTS]_vars
    /\ []((/\ req.op = "upsert_alert" /\ req.pc = "done"
           /\ req.local.current.some
           /\ SameFields(req.local.current.v, req.arg))
             => req.resp.rule = req.local.current.v)

\* the rule with a channel has been upserted a second time with the same
\* fields and has answered
C17_Witness ==
    /\ req.op = "upsert_alert" /\ req.pc = "done"
    /\ req.local.current.some
    /\ SameFields(req.local.current.v, req.arg)
    /\ req.arg.notification_channels = Some(<<"email">>)
    /\ req.resp.rule = req.local.current.v
    /\ nreq = 2

-----------------------------------------------------------------------------
(* Flushes that run to their end: no failed write, no restart.  The event loop
   runs an accepted handler to its return and the operating system runs every
   started thread; nothing makes a client send a request. *)

HandlerStep ==
    \/ HandlerAcquire
    \/ ingest_logs_body
    \/ ingest_metrics_body
    \/ upsert_alert_body
    \/ HandlerRelease
    \/ persist_async
    \/ HandlerReturn
    \/ HandlerFinish

ThreadStep ==
    \/ PersistAcquire
    \/ SaveOpen
    \/ SaveWrite
    \/ SaveReplace
    \/ PersistRelease

NextLive ==
    \/ ingest_logs(SpecLogs)
    \/ ingest_metrics(SpecMetrics)
    \/ upsert_alert(SpecRules)
    \/ HandlerAcquire
    \/ ingest_logs_body
    \/ ingest_metrics_body
    \/ upsert_alert_body
    \/ HandlerRelease
    \/ persist_async
    \/ HandlerReturn
    \/ HandlerFinish
    \/ PersistAcquire
    \/ SaveOpen
    \/ SaveWrite
    \/ SaveReplace
    \/ PersistRelease

LiveSpec ==
    /\ Init
    /\ [][NextLive]_vars
    /\ WF_vars(HandlerStep)
    /\ WF_vars(ThreadStep)

\* the three files hold the snapshots of the stores as they are now
DiskHoldsMemory ==
    \A k \in 1..3 : files[SavePath(k)] = [exists |-> TRUE, text |-> SaveText(k)]

\* C7: with persistence on and no failed write, once the stores change no
\* more, the three files come to hold the logs, metrics and alerts in memory
\* and keep holding them, whatever order the flush threads ran in.
C7_DiskConverges ==
    <>[][LOGS' = LOGS /\ METRICS' = METRICS /\ ALERTS' = ALERTS]_vars
        => <>[](nreq > 0 => DiskHoldsMemory)

\* two mutations were flushed by two threads and the disk holds the stores
C7_Witness ==
    /\ nreq = 2 /\ Len(threads) = 2
    /\ \A t \in ThreadIds : threads[t].pc = "done"
    /\ Len(LOGS) > 0 /\ \E i \in 1..Len(ALERTS) : ALERTS[i].name = "r2"
    /\ DiskHoldsMemory

\* thread t is between its first open and the end of its with block
Flushing(t) == Writing(t) \/ Flushed(t)

\* C19: at most one flush thread is writing at any time, and a flush that
\* did not fail has written three files that are the dumps of one state of
\* the stores: no step changes a store while a flush is under way.
C19_FlushesSerialized ==
    /\ [](Cardinality({t \in ThreadIds : Flushing(t)}) <= 1)
    /\ [](\A t \in ThreadIds : Flushing(t) => HeldBy(t))
    /\ [](\A t \in ThreadIds : Flushed(t) => DiskHoldsMemory)
    /\ [][((\E t \in ThreadIds : Flushing(t)) /\ restarts' = restarts)
            => LOGS' = LOGS /\ METRICS' = METRICS /\ ALERTS' = ALERTS]_vars

\* the first flush thread has written its three files, which hold both
\* mutations, while the second waits for the lock
C19_Witness ==
    /\ Len(threads) = 2 /\ nreq = 2
    /\ Flushed(1) /\ threads[2].pc = "acquire"
    /\ DiskHoldsMemory

-----------------------------------------------------------------------------
(* The whole service on a fresh data directory: every handler, the _persist
   threads and restarts. *)

AllLogQueries ==
    {LogQuery(None, None, None, None, 1, 1),
     LogQuery(Some("b"), Some("INFO"), Some(isoformat(T1utc)), None, 2, 1)}
AllMetricQueries ==
    {MetricQuery(None, Some("cpu"), None, Some(isoformat(T1utc)), 1, 2)}
AllLogs == {LogPayload("b", T1plus1, "INFO", "y"), LogPayload("a", T2utc, "ERROR", "x")}
AllRules == {Rule("r1", "e2", "critical", Some(<<"email">>))}

InitAll == InitWith(TRUE, {EmptyDir})

NextAll ==
    \/ ingest_logs(AllLogs)
    \/ ingest_metrics(SpecMetrics)
    \/ upsert_alert(AllRules)
    \/ get_alerts
    \/ get_compliance_reports
    \/ query_logs(AllLogQueries)
    \/ query_metrics(AllMetricQueries)
    \/ HandlerAcquire
    \/ ingest_logs_body
    \/ ingest_metrics_body
    \/ upsert_alert_body
    \/ get_alerts_body
    \/ get_compliance_reports_body
    \/ filter_logs_body
    \/ filter_metrics_body
    \/ HandlerRelease
    \/ persist_async
    \/ HandlerReturn
    \/ HandlerFinish
    \/ PersistAcquire
    \/ SaveOpen
    \/ SaveWrite
    \/ SaveReplace
    \/ PersistRelease
    \/ Restart

SpecAll == InitAll /\ [][NextAll]_vars

IsPrefix(s, t) == Len(s) <= Len(t) /\ SubSeq(t, 1, Len(s)) = s

\* this step is the with block of ingest_logs, of ingest_metrics
IngestLogsStep ==
    req.op = "ingest_logs" /\ req.pc = "body" /\ req'.op = "ingest_logs" /\ req'.pc = "unlock"
IngestMetricsStep ==
    req.op = "ingest_metrics" /\ req.pc = "body" /\ req'.op = "ingest_metrics"
        /\ req'.pc = "unlock"

\* C12: every step of a handler or of a flush thread leaves the logs and the
\* metrics it found as a prefix of what it leaves; the with block of an ingest
\* adds the one entry of its request at the end of its list and changes
\* nothing else, and no other step changes either list.
C12_AppendOnly ==
    [][restarts' = restarts =>
        /\ IsPrefix(LOGS, LOGS') /\ IsPrefix(METRICS, METRICS')
        /\ IngestLogsStep =>
              /\ Len(LOGS') = Len(LOGS) + 1
              /\ LOGS'[Len(LOGS')].source = req.arg.source
              /\ LOGS'[Len(LOGS')].level = req.arg.level
              /\ LOGS'[Len(LOGS')].message = req.arg.message
              /\ LOGS'[Len(LOGS')].timestamp = isoformat(req.arg.timestamp)
              /\ METRICS' = METRICS /\ ALERTS' = ALERTS
        /\ IngestMetricsStep =>
              /\ Len(METRICS') = Len(METRICS) + 1
              /\ METRICS'[Len(METRICS')].source = req.arg.source
              /\ METRICS'[Len(METRICS')].metrics = req.arg.metrics
              /\ METRICS'[Len(METRICS')].timestamp = isoformat(req.arg.timestamp)
              /\ LOGS' = LOGS /\ ALERTS' = ALERTS
        /\ ~IngestLogsStep => LOGS' = LOGS
        /\ ~IngestMetricsStep => METRICS' = METRICS
      ]_vars

\* a second, different log has been appended behind the first while the
\* flush thread of the first waits for the lock
C12_Witness ==
    /\ Len(LOGS) = 2 /\ LOGS[1] # LOGS[2]
    /\ req.op = "ingest_logs" /\ req.pc = "unlock"
    /\ LOGS[2].source = req.arg.source
    /\ \E t \in ThreadIds : threads[t].pc = "acquire"

\* the handler has taken its view of the store and has not returned yet
Viewing(op) == req.op = op /\ req.pc \in {"unlock", "after"}

\* C14: what a reader holds and returns is the store of one instant: the
\* three counts of a compliance report are the sizes of the three collections
\* together, the alert list is the whole registry, and the entries of a query
\* are the matches of the whole collection, while flush threads run and
\* between any two mutations.
C14_ReadersSeeOneState ==
    /\ Viewing("get_compliance_reports") =>
          /\ req.local.total_logs = Len(LOGS)
          /\ req.local.total_metrics = Len(METRICS)
          /\ req.local.alerts_count = Len(ALERTS)
    /\ Answered("get_compliance_reports") =>
          /\ req.resp.total_logs = Len(LOGS)
          /\ req.resp.total_metrics = Len(METRICS)
          /\ req.resp.alert_rules = Len(ALERTS)
    /\ Viewing("get_alerts") => req.local.alerts = ALERTS
    /\ Answered("get_alerts") =>
          req.resp.alerts = ALERTS /\ req.resp.count = Len(ALERTS)
    /\ Viewing("query_logs") \/ Answered("query_logs") =>
          req.local.results =
              SelectSeq(LOGS, LAMBDA e : LogSelected(e, req.arg.source, req.arg.level,
                                                     req.local.start_dt, req.local.end_dt))
    /\ Viewing("query_metrics") \/ Answered("query_metrics") =>
          req.local.results =
              SelectSeq(METRICS,
                        LAMBDA e : MetricSelected(e, req.arg.source, req.arg.metric,
                                                  req.local.start_dt, req.local.end_dt))

\* a compliance report has been answered between two mutations, with a flush
\* thread of the first still to run, and its counts differ from one another
C14_Witness ==
    /\ Answered("get_compliance_reports")
    /\ req.resp.total_logs = 1 /\ req.resp.total_metrics = 0
    /\ nreq = 1
    /\ \E t \in ThreadIds : threads[t].pc \in {"acquire", "open", "write"}

\* the record has never triggered
Untriggered(data) == ~data.active /\ data.last_triggered = None

\* C18: started without persisted alerts, the service never has a rule that
\* is active or has a last_triggered, in the registry, in an answer or in
\* what a restart loads back.
C18_NeverTriggered ==
    /\ \A i \in 1..Len(ALERTS) : Untriggered(ALERTS[i].data)
    /\ Answered("upsert_alert") => Untriggered(req.resp.rule)
    /\ Answered("get_alerts") =>
          \A i \in 1..Len(req.resp.alerts) : Untriggered(req.resp.alerts[i].data)
    /\ \A i \in 1..Len(bootstrap_store(files, OBS_ENABLE_PERSISTENCE).alerts) :
          Untriggered(bootstrap_store(files, OBS_ENABLE_PERSISTENCE).alerts[i].data)

\* a rule was upserted and flushed, the process restarted, and the list of
\* alerts has been answered with that rule
C18_Witness ==
    /\ restarts = 1 /\ nreq = 1
    /\ Answered("get_alerts") /\ req.resp.count = 1
    /\ req.resp.alerts[1].name = "r1"

-----------------------------------------------------------------------------
(* Start-up on a data directory whose files are missing or damaged *)

BootLogs == <<LogEntry(LogPayload("b", T2utc, "INFO", "y"))>>
BootMetrics == <<MetricEntry(MetricPayload("a", T1utc, {<<"cpu", 1>>}))>>
BootAlerts == <<PriorAlert>>

\* what the file at `path` holds when it is as it should be
BootGood(path) ==
    CASE path = LOGS_FILE -> json_dump(BootLogs, "list")
      [] path = METRICS_FILE -> json_dump(BootMetrics, "list")
      [] path = ALERTS_FILE -> json_dump(BootAlerts, "dict")

\* the conditions of a snapshot file at start-up: no file; a file that cannot
\* be read or is empty (open or json.load raises at once); a document cut
\* short; valid JSON of the other top-level type; the snapshot itself
BootConditions == {"absent", "empty", "truncated", "wrong", "good"}
BootFile(path, c) ==
    CASE c = "absent" -> Absent
      [] c = "empty" -> [exists |-> TRUE, text |-> <<>>]
      [] c = "truncated" ->
            [exists |-> TRUE,
             text |-> SubSeq(BootGood(path), 1, Len(BootGood(path)) - 1)]
      [] c = "wrong" ->
            [exists |-> TRUE,
             text |-> IF path = ALERTS_FILE THEN json_dump(BootLogs, "list")
                      ELSE json_dump(BootAlerts, "dict")]
      [] c = "good" -> [exists |-> TRUE, text |-> BootGood(path)]

BootDisk(l, m, a) ==
    [p \in Paths |->
        CASE p = LOGS_FILE -> BootFile(p, l)
          [] p = METRICS_FILE -> BootFile(p, m)
          [] p = ALERTS_FILE -> BootFile(p, a)
          [] OTHER -> Absent]

BootDisks ==
    {BootDisk("truncated", "good", "good"),
     BootDisk("wrong", "absent", "wrong"),
     BootDisk("good", "empty", "truncated")}

InitBoot == InitWith(TRUE, BootDisks)

NextBoot ==
    \/ ingest_logs(SpecLogs)
    \/ ingest_metrics(SpecMetrics)
    \/ upsert_alert(AllRules)
    \/ get_alerts
    \/ get_compliance_reports
    \/ query_logs(AllLogQueries)
    \/ query_metrics(AllMetricQueries)
    \/ HandlerAcquire
    \/ ingest_logs_body
    \/ ingest_metrics_body
    \/ upsert_alert_body
    \/ get_alerts_body
    \/ get_compliance_reports_body
    \/ filter_logs_body
    \/ filter_metrics_body
    \/ HandlerRelease
    \/ persist_async
    \/ HandlerReturn
    \/ HandlerFinish
    \/ PersistAcquire
    \/ SaveOpen
    \/ SaveWrite
    \/ SaveReplace
    \/ PersistRelease
    \/ Restart

SpecBoot == InitBoot /\ [][NextBoot]_vars

\* what a collection starts as, given the condition of its file
BootExpected(c, good) == IF c = "good" THEN good ELSE <<>>

\* every combination of the conditions of the three files
BootEachFileAlone ==
    \A l \in BootConditions, m \in BootConditions, a \in BootConditions :
        LET b == bootstrap_store(BootDisk(l, m, a), TRUE)
        IN  /\ b.logs = BootExpected(l, BootLogs)
            /\ b.metrics = BootExpected(m, BootMetrics)
            /\ b.alerts = BootExpected(a, BootAlerts)

-----------------------------------------------------------------------------
(* Contention for _store_lock: an ingest, a reader whose filter may raise, flush
   threads that may fail.  The event loop runs an accepted handler on; the
   operating system runs every started thread, and a thread blocked in
   acquire() gets the lock when it is released again and again. *)

\* a query that is answered on an empty store and raises in the filter once
\* a log is stored (its from is naive, the stored timestamps are not)
LockLogQueries == {LogQuery(None, None, Some(isoformat(T1naive)), None, 1, 1)}

NextLock ==
    \/ ingest_logs(SpecLogs)
    \/ query_logs(LockLogQueries)
    \/ HandlerAcquire
    \/ ingest_logs_body
    \/ filter_logs_body
    \/ HandlerRelease
    \/ persist_async
    \/ HandlerReturn
    \/ HandlerFinish
    \/ PersistAcquire
    \/ SaveOpen
    \/ SaveWrite
    \/ SaveReplace
    \/ PersistRelease
    \/ SaveFail

\* the steps of the event loop once a handler is accepted
LoopStep ==
    \/ HandlerAcquire
    \/ ingest_logs_body
    \/ filter_logs_body
    \/ HandlerRelease
    \/ persist_async
    \/ HandlerReturn
    \/ HandlerFinish

LockSpec ==
    /\ InitAll
    /\ [][NextLock]_vars
    /\ WF_vars(LoopStep)
    /\ WF_vars(ThreadStep)
    /\ SF_vars(PersistAcquire)

\* whoever holds the lock is inside its with block
HolderInside ==
    store_lock.held =>
        IF store_lock.by = 0
        THEN req.pc \in {"body", "unlock"}
        ELSE /\ store_lock.by \in ThreadIds
             /\ threads[store_lock.by].pc \in {"open", "write", "replace", "release"}

Waiting == req.pc = "lock" \/ \E t \in ThreadIds : threads[t].pc = "acquire"

====
